---- MODULE Spec2Model ----
(***************************************************************************)
(* Model of the gameplay systems of src/main.rs: the character's           *)
(* CharacterState component, the player_control system (pressed actions -> *)
(* velocity, jump impulse) and the character_state system (collision       *)
(* events -> Grounded / InAir), scheduled once per frame by the engine.    *)
(*                                                                         *)
(* f32 values are fixed-point integers: a value v is stored as v * Scale.  *)
(***************************************************************************)
EXTENDS Integers, Sequences, FiniteSets

\* ------------------------------------------------------------------ bounds
\* fixed-point resolution of the modelled f32 values
Scale == 100
\* most collision events one physics step reports for the stage-character pair
MaxContacts == 1
\* longest batch of collision events given to character_state on its own
MaxEvents == 2
\* saturation of the history counter jumpsSinceStarted
MaxJumpCount == 2

\* --------------------------------------------------------------- entities
\* the three entities spawned on entering GameState::Ready
camera == "camera"
stage == "stage"
character == "character"
Entities == {camera, stage, character}

\* enum CharacterState
CharacterState == {"Grounded", "InAir"}

\* enum Action, and its variants in declaration order (the order in which
\* ActionState::get_pressed reports the pressed actions)
Action == {"MoveLeft", "MoveRight", "MoveAway", "MoveTowards", "Jump"}
Variants == <<"MoveLeft", "MoveRight", "MoveAway", "MoveTowards", "Jump">>

\* Vec3::new(0.0, 0.0, 0.7)
JumpImpulse == <<0, 0, (7 * Scale) \div 10>>
\* Vec3 / Velocity / ExternalImpulse default
Zero3 == <<0, 0, 0>>
\* the factor of movement.normalize_or_zero() * 10.0
MoveSpeed == 10

VARIABLES
    gameState,          \* GameState: "Loading" or "Ready"
    step,               \* the stage of the frame the engine is in
    status,             \* entity -> CharacterState, for entities holding the component
    ground,             \* entities holding the Ground component
    linvel,             \* the character's Velocity.linvel, <<x, y, z>>
    impulse,            \* the character's ExternalImpulse.impulse
    pressed,            \* the character's ActionState: the set of pressed actions
    events,             \* CollisionEvents not yet read by character_state
    ran,                \* the on_update systems that already ran in this frame
    jumped,             \* history: the last player_control run wrote the jump impulse
    jumpsSinceStarted,  \* history: jump impulses since the last processed Started(character, ground)
    batch,              \* history: the events processed by this frame's character_state run
    trace               \* history: status before that run and after each of its events

vars == <<gameState, step, status, ground, linvel, impulse, pressed, events, ran,
          jumped, jumpsSinceStarted, batch, trace>>

\* ------------------------------------------------------------ vector math
Abs(n) == IF n < 0 THEN -n ELSE n
Sign(n) == IF n < 0 THEN -1 ELSE IF n > 0 THEN 1 ELSE 0
Min(a, b) == IF a < b THEN a ELSE b

\* integer square root
ISqrt(n) == CHOOSE r \in 0..n : r * r <= n /\ (r + 1) * (r + 1) > n

\* Vec2::normalize_or_zero of an integer vector, result in fixed point
normalize_or_zero(v) ==
    LET len == ISqrt((v[1] * v[1] + v[2] * v[2]) * Scale * Scale)
    IN  IF len = 0
        THEN <<0, 0>>
        ELSE <<Sign(v[1]) * ((Abs(v[1]) * Scale * Scale) \div len),
               Sign(v[2]) * ((Abs(v[2]) * Scale * Scale) \div len)>>

\* ---------------------------------------------------------- player_control
\* ActionState::get_pressed: the pressed actions, in variant order
get_pressed(p) == SelectSeq(Variants, LAMBDA a : a \in p)

\* faulty variant: the jump is not guarded by the status
JumpAllowedAlways(st) == TRUE

\* matches!(*character_state, CharacterState::Grounded)
JumpAllowed(st) == st = "Grounded"

\* faulty variant: the jump forgets the transition to InAir
JumpArmNoTransition(s) ==
    IF JumpAllowed(s.state)
    THEN [s EXCEPT !.impulse = JumpImpulse, !.jumped = TRUE]
    ELSE s

\* the body of the Action::Jump arm
JumpArm(s) ==
    IF JumpAllowed(s.state)
    THEN [s EXCEPT !.impulse = JumpImpulse, !.state = "InAir", !.jumped = TRUE]
    ELSE s

\* one iteration of the loop over the pressed actions
MatchAction(s, action) ==
    CASE action = "MoveLeft"    -> [s EXCEPT !.movement[2] = -1]
      [] action = "MoveRight"   -> [s EXCEPT !.movement[2] = 1]
      [] action = "MoveAway"    -> [s EXCEPT !.movement[1] = -1]
      [] action = "MoveTowards" -> [s EXCEPT !.movement[1] = 1]
      [] action = "Jump"        -> JumpArm(s)

RECURSIVE PressedLoop(_, _)
PressedLoop(s, actions) ==
    IF actions = <<>>
    THEN s
    ELSE PressedLoop(MatchAction(s, Head(actions)), Tail(actions))

\* faulty variant: the vertical component is reset instead of kept
NewLinvelResetZ(movement, v) ==
    LET n == normalize_or_zero(movement)
    IN  <<n[1] * MoveSpeed, n[2] * MoveSpeed, 0>>

\* (movement.normalize_or_zero() * 10.0).extend(velocity.linvel.z)
NewLinvel(movement, v) ==
    LET n == normalize_or_zero(movement)
    IN  <<n[1] * MoveSpeed, n[2] * MoveSpeed, v[3]>>

\* the entities matched by the player query (all of them are spawned with
\* Player, Velocity, ExternalImpulse and ActionState; CharacterState decides)
PlayerQuery == DOMAIN status

player_control ==
    /\ gameState = "Ready"
    /\ step = "Update"
    /\ "player_control" \notin ran
    /\ Cardinality(PlayerQuery) = 1
    /\ LET s == PressedLoop([movement |-> <<0, 0>>, impulse |-> impulse,
                             state |-> status[character], jumped |-> FALSE],
                            get_pressed(pressed))
       IN  /\ linvel' = NewLinvel(s.movement, linvel)
           /\ impulse' = s.impulse
           /\ status' = [status EXCEPT ![character] = s.state]
           /\ jumped' = s.jumped
           /\ jumpsSinceStarted' =
                 IF s.jumped THEN Min(jumpsSinceStarted + 1, MaxJumpCount)
                             ELSE jumpsSinceStarted
    /\ ran' = ran \cup {"player_control"}
    /\ UNCHANGED <<gameState, step, ground, pressed, events, batch, trace>>

\* --------------------------------------------------------- character_state
\* CollisionEvent::Started(e1, e2, _) / CollisionEvent::Stopped(e1, e2, _)
\* between the pairs of entities in ps
CollisionEvent(ps) ==
    {[kind |-> k, e1 |-> p[1], e2 |-> p[2]] : k \in {"Started", "Stopped"}, p \in ps}

\* characters.get_mut(e).is_ok()
IsCharacter(st, e) == e \in DOMAIN st
\* faulty variant: the other participant is not checked against the ground
GroundContainsAny(g, e) == TRUE

\* ground.contains(e)
GroundContains(g, e) == e \in g

\* faulty variant: only the first participant is looked up as a character
SelectCharacterFirstOnly(st, g, e1, e2) ==
    IF IsCharacter(st, e1)
    THEN IF GroundContains(g, e2) THEN e1 ELSE "none"
    ELSE "none"

\* the if / else-if chain selecting the character of an event: the entity
\* whose CharacterState is written, or "none" when the event is skipped
SelectCharacter(st, g, e1, e2) ==
    IF IsCharacter(st, e1)
    THEN IF GroundContains(g, e2) THEN e1 ELSE "none"
    ELSE IF IsCharacter(st, e2)
         THEN IF GroundContains(g, e1) THEN e2 ELSE "none"
         ELSE "none"

\* faulty variant: the Stopped arm writes Grounded too
ArmValueAlwaysGrounded(kind) == "Grounded"

\* faulty variant: the two arms write each other's value
ArmValueSwapped(kind) == IF kind = "Started" THEN "InAir" ELSE "Grounded"

\* the value each match arm writes
ArmValue(kind) == IF kind = "Started" THEN "Grounded" ELSE "InAir"

\* one iteration of the loop over the events
MatchEvent(st, g, ev) ==
    LET c == SelectCharacter(st, g, ev.e1, ev.e2)
    IN  IF c = "none" THEN st ELSE [st EXCEPT ![c] = ArmValue(ev.kind)]

\* faulty variant: a skipped event ends the loop (break instead of continue)
RECURSIVE EventLoopBreak(_, _, _)
EventLoopBreak(st, g, evs) ==
    IF evs = <<>>
    THEN <<st>>
    ELSE IF SelectCharacter(st, g, Head(evs).e1, Head(evs).e2) = "none"
         THEN [i \in 1..(Len(evs) + 1) |-> st]
         ELSE <<st>> \o EventLoopBreak(MatchEvent(st, g, Head(evs)), g, Tail(evs))

\* the statuses before the loop and after each event
RECURSIVE EventLoop(_, _, _)
EventLoop(st, g, evs) ==
    IF evs = <<>>
    THEN <<st>>
    ELSE <<st>> \o EventLoop(MatchEvent(st, g, Head(evs)), g, Tail(evs))

\* the event resets the history counter: a Started event that grounded the character
GroundedBy(st, g, ev) ==
    ev.kind = "Started" /\ SelectCharacter(st, g, ev.e1, ev.e2) = character

character_state ==
    /\ gameState = "Ready"
    /\ step = "Update"
    /\ "character_state" \notin ran
    /\ LET t == EventLoop(status, ground, events)
       IN  /\ trace' = t
           /\ status' = t[Len(t)]
           /\ jumpsSinceStarted' =
                 IF \E i \in DOMAIN events : GroundedBy(t[i], ground, events[i])
                 THEN 0 ELSE jumpsSinceStarted
    /\ batch' = events
    /\ events' = <<>>
    /\ ran' = ran \cup {"character_state"}
    /\ UNCHANGED <<gameState, step, ground, linvel, impulse, pressed, jumped>>

\* ------------------------------------------------------------------ engine
\* sequences over S of length at most n
SeqsUpTo(S, n) == UNION {[1..k -> S] : k \in 0..n}

\* spawn_camera, spawn_stage and spawn_character, run once on entering Ready
spawn_stage == {stage}
\* faulty variant: the character is spawned with the other variant
spawn_characterInAir == [e \in {character} |-> "InAir"]

spawn_character == [e \in {character} |-> "Grounded"]

EnterReady ==
    /\ gameState = "Loading"
    /\ gameState' = "Ready"
    /\ ground' = spawn_stage
    /\ status' = spawn_character
    /\ linvel' = Zero3
    /\ impulse' = Zero3
    /\ pressed' = {}
    /\ UNCHANGED <<step, events, ran, jumped, jumpsSinceStarted, batch, trace>>

\* vertical velocities the physics step may leave the character with
VzSet == {-Scale, 0}

\* the pairs of entities that both hold a Collider, in either report order
ColliderPairs == {<<stage, character>>, <<character, stage>>}

\* the physics step, after the on_update systems of the frame: integrates the
\* body (gravity and contacts change the velocity), may consume the impulse,
\* and reports the collisions of the stage-character pair
PhysicsStep ==
    /\ ran = {"player_control", "character_state"}
    /\ gameState = "Ready"
    /\ step = "Update"
    /\ \E vz \in VzSet :
          linvel' \in {<<linvel[1], linvel[2], vz>>, <<0, 0, vz>>}
    /\ impulse' \in {impulse, Zero3}
    /\ events' \in SeqsUpTo(CollisionEvent(ColliderPairs), MaxContacts)
    /\ ran' = {}
    /\ jumped' = FALSE
    /\ batch' = <<>>
    /\ trace' = <<>>
    /\ step' = "PreUpdate"
    /\ UNCHANGED <<gameState, status, ground, pressed, jumpsSinceStarted>>

\* the input manager's update at the start of the next frame
InputUpdate ==
    /\ gameState = "Ready"
    /\ step = "PreUpdate"
    /\ step' = "Update"
    /\ pressed' \in SUBSET Action
    /\ UNCHANGED <<gameState, status, ground, linvel, impulse, events, ran,
                   jumped, jumpsSinceStarted, batch, trace>>

Init ==
    /\ gameState = "Loading"
    /\ step = "Update"
    /\ status = <<>>
    /\ ground = {}
    /\ linvel = Zero3
    /\ impulse = Zero3
    /\ pressed = {}
    /\ events = <<>>
    /\ ran = {}
    /\ jumped = FALSE
    /\ jumpsSinceStarted = 0
    /\ batch = <<>>
    /\ trace = <<>>

Next ==
    \/ EnterReady
    \/ InputUpdate
    \/ player_control
    \/ character_state
    \/ PhysicsStep

Spec == Init /\ [][Next]_vars

\* ---------------------------------------------------------------------
\* The character_state system on its own: it runs once, in an Update stage
\* of the spawned world, on a batch of collision events between any two
\* entities (the system's filter of the events is what is checked).
InitEvents ==
    /\ gameState = "Ready"
    /\ step = "Update"
    /\ status \in [DOMAIN spawn_character -> CharacterState]
    /\ ground = spawn_stage
    /\ linvel = Zero3
    /\ impulse = Zero3
    /\ pressed = {}
    /\ events \in SeqsUpTo(CollisionEvent(Entities \X Entities), MaxEvents)
    /\ ran = {}
    /\ jumped = FALSE
    /\ jumpsSinceStarted = 0
    /\ batch = <<>>
    /\ trace = <<>>

NextEvents == character_state

SpecEvents == InitEvents /\ [][NextEvents]_vars

\* =====================================================================
\* Properties
\* =====================================================================

\* the event is a collision between the character and the ground entity
CharacterAndGround(ev) == {ev.e1, ev.e2} = {character, stage}
\* neither participant of the event holds a CharacterState
LookupMisses(ev) == ev.e1 \notin DOMAIN status /\ ev.e2 \notin DOMAIN status

\* C1: a run of player_control writes the jump impulse only if Jump is
\* pressed and the status is Grounded when it runs; when the status is InAir
\* the run leaves the impulse and the status unchanged.
C1_JumpOnlyWhenGrounded ==
    [][player_control =>
         /\ jumped' => /\ "Jump" \in pressed
                       /\ status[character] = "Grounded"
                       /\ impulse' = JumpImpulse
         /\ impulse' # impulse => jumped'
         /\ status[character] = "InAir" =>
               impulse' = impulse /\ status' = status /\ ~jumped']_vars

\* Jump pressed while InAir: player_control ran and changed nothing
C1_Witness ==
    /\ ran = {"player_control"}
    /\ "Jump" \in pressed
    /\ status[character] = "InAir"
    /\ ~jumped
    /\ impulse = Zero3

\* C2: the run of player_control that writes the jump impulse ends with the
\* status InAir.
C2_JumpEndsInAir ==
    [][player_control /\ jumped' => status'[character] = "InAir"]_vars

C2_Witness ==
    /\ "player_control" \in ran
    /\ jumped
    /\ impulse = JumpImpulse
    /\ status[character] = "InAir"

\* C3: every Started event between the character and the ground entity that
\* character_state processes leaves the status Grounded, in both participant
\* orders and whatever the status was.
C3_StartedGrounds ==
    \A i \in DOMAIN batch :
        batch[i].kind = "Started" /\ CharacterAndGround(batch[i])
            => trace[i + 1][character] = "Grounded"

\* ground reported first, status InAir before the event
C3_Witness ==
    \E i \in DOMAIN batch :
        /\ batch[i] = [kind |-> "Started", e1 |-> stage, e2 |-> character]
        /\ trace[i][character] = "InAir"
        /\ trace[i + 1][character] = "Grounded"

\* C4: every Stopped event between the character and the ground entity that
\* character_state processes leaves the status InAir, in both participant
\* orders and whatever the status was.
C4_StoppedInAir ==
    \A i \in DOMAIN batch :
        batch[i].kind = "Stopped" /\ CharacterAndGround(batch[i])
            => trace[i + 1][character] = "InAir"

C4_Witness ==
    \E i \in DOMAIN batch :
        /\ batch[i] = [kind |-> "Stopped", e1 |-> stage, e2 |-> character]
        /\ trace[i][character] = "Grounded"
        /\ trace[i + 1][character] = "InAir"

\* C5: an event in which neither participant is the ground entity leaves the
\* status of every character as it was.
C5_NoGroundNoChange ==
    \A i \in DOMAIN batch :
        batch[i].e1 \notin ground /\ batch[i].e2 \notin ground
            => trace[i + 1] = trace[i]

\* a Stopped event whose participants are both the character, and one
\* between the character and the camera, while the status is Grounded
C5_Witness ==
    /\ \E i \in DOMAIN batch :
          /\ batch[i] = [kind |-> "Stopped", e1 |-> character, e2 |-> character]
          /\ trace[i + 1][character] = "Grounded"
    /\ \E i \in DOMAIN batch :
          /\ batch[i] = [kind |-> "Stopped", e1 |-> character, e2 |-> camera]
          /\ trace[i + 1][character] = "Grounded"

\* the status a batch leaves: the one of its last character-ground event
LastCharacterGround(evs) ==
    LET I == {i \in DOMAIN evs : CharacterAndGround(evs[i])}
    IN  IF I = {} THEN 0 ELSE CHOOSE i \in I : \A j \in I : j <= i

\* C6: after a run of player_control with two opposite movement actions
\* pressed, the lateral velocity on that axis is zero.
C6_OppositeActionsCancel ==
    "player_control" \in ran =>
        /\ {"MoveLeft", "MoveRight"} \subseteq pressed => linvel[2] = 0
        /\ {"MoveAway", "MoveTowards"} \subseteq pressed => linvel[1] = 0

\* C7: an event whose lookup misses on both participants changes no status,
\* and the batch it is in is processed to its end: the status after the run
\* is the one set by the last character-ground event of the batch, or the
\* status before the run when the batch has none.
C7_MissIsSkipped ==
    (\E i \in DOMAIN batch : LookupMisses(batch[i])) =>
        /\ \A i \in DOMAIN batch : LookupMisses(batch[i]) => trace[i + 1] = trace[i]
        /\ events = <<>>
        /\ Len(trace) = Len(batch) + 1
        /\ status = trace[Len(trace)]
        /\ LET l == LastCharacterGround(batch)
           IN  status[character] =
                  IF l = 0 THEN trace[1][character]
                  ELSE IF batch[l].kind = "Started" THEN "Grounded" ELSE "InAir"

\* a miss first, then a character-ground event that changes the status
C7_Witness ==
    /\ Len(batch) = 2
    /\ batch[1] = [kind |-> "Started", e1 |-> camera, e2 |-> stage]
    /\ batch[2] = [kind |-> "Stopped", e1 |-> character, e2 |-> stage]
    /\ trace[1][character] = "Grounded"
    /\ status[character] = "InAir"

\* C8: once the character is spawned its status is one of Grounded and
\* InAir, and it is Grounded when spawned.
C8_ExactlyOneStatus ==
    /\ [](gameState = "Ready" =>
            DOMAIN status = {character} /\ status[character] \in CharacterState)
    /\ [][EnterReady => status'[character] = "Grounded"]_vars

\* both systems have acted on the spawned character
C8_Witness ==
    /\ gameState = "Ready"
    /\ ran = {"player_control", "character_state"}
    /\ status[character] = "InAir"
    /\ batch # <<>>

\* C9: no second jump impulse is applied before character_state has processed
\* a Started event between the character and the ground entity.
C9_NoDoubleJump == jumpsSinceStarted <= 1

\* Jump is still pressed in a frame after the jump: nothing is applied
C9_Witness ==
    /\ ran = {"player_control", "character_state"}
    /\ "Jump" \in pressed
    /\ jumpsSinceStarted = 1
    /\ ~jumped
    /\ status[character] = "InAir"

\* the lateral velocity the pressed actions stand for: on each axis the
\* direction of the pressed action (the positive one when both are pressed),
\* at speed MoveSpeed, up to the rounding of the fixed-point arithmetic
IsLateralOf(lat, p) ==
    LET dx == IF "MoveTowards" \in p THEN 1 ELSE IF "MoveAway" \in p THEN -1 ELSE 0
        dy == IF "MoveRight" \in p THEN 1 ELSE IF "MoveLeft" \in p THEN -1 ELSE 0
        S  == MoveSpeed * Scale
        sq == lat[1] * lat[1] + lat[2] * lat[2]
    IN  /\ Sign(lat[1]) = dx
        /\ Sign(lat[2]) = dy
        /\ dx # 0 /\ dy # 0 => Abs(lat[1]) = Abs(lat[2])
        /\ dx # 0 \/ dy # 0 =>
              sq <= S * S /\ (S - 2 * MoveSpeed) * (S - 2 * MoveSpeed) <= sq

\* C10: a run of player_control keeps linvel.z and overwrites the lateral
\* components with a value given by the pressed actions alone.
C10_LateralFromPressed ==
    [][player_control =>
         /\ linvel'[3] = linvel[3]
         /\ IsLateralOf(<<linvel'[1], linvel'[2]>>, pressed)]_vars

\* falling, in the air, moving diagonally
C10_Witness ==
    /\ "player_control" \in ran
    /\ pressed = {"MoveLeft", "MoveAway"}
    /\ status[character] = "InAir"
    /\ linvel[3] = -Scale
    /\ linvel[1] < 0 /\ linvel[1] = linvel[2]

====
